---- MODULE Spec2Model ----
(***************************************************************************)
(* Model of febrl/mymath.py: the _Rational type, the continued-fraction    *)
(* helper _trim, and the arithmetic coder (arith_coder_train,              *)
(* arith_coder_encode), as the file behaves under Python 3 (it imports     *)
(* typing and builtins and uses f-strings).                                *)
(*                                                                         *)
(* Python numbers.  A Python int is unbounded; a Python float is an IEEE   *)
(* double with a 53 bit significand.  _Rational.__init__ stores n / f and  *)
(* d / f, which are true divisions, hence floats.  Both kinds are modelled *)
(* as records [ty, neg, mag]: ty is "int" or "float", neg the sign, and    *)
(* mag the magnitude as an unbounded natural: a sequence of limbs in base  *)
(* LimbBase, least significant limb first, without leading zero limbs.     *)
(* Every float that reaches a _Rational field is integer valued, so the    *)
(* magnitude of a float is a natural too; float results are rounded to 53  *)
(* significant bits, ties to even, as IEEE arithmetic does.                *)
(***************************************************************************)
EXTENDS Integers, Sequences, FiniteSets, TLC

(***************************************************************************)
(* Unbounded naturals (the magnitudes of Python ints and floats).  The     *)
(* operators avoid recursion over bits: carries are found by lookahead and *)
(* quotient digits by an estimate from the leading limbs.                  *)
(***************************************************************************)
LimbBase == 2^10

\* F applied to the value of v: v is evaluated once, then bound
Let(v, F(_)) == CHOOSE r \in {F(y) : y \in {v}} : TRUE

MaxOf(S) == CHOOSE m \in S : \A k \in S : k <= m

RECURSIVE BN(_)
\* the natural k as a limb sequence
BN(k) == IF k = 0 THEN <<>> ELSE <<k % LimbBase>> \o BN(k \div LimbBase)

RECURSIVE BVal(_)
\* the limb sequence a as a number (only for magnitudes that fit)
BVal(a) == IF a = <<>> THEN 0 ELSE Head(a) + LimbBase * BVal(Tail(a))

\* drop leading (most significant) zero limbs
BStrip(a) ==
  LET nz == {i \in 1..Len(a) : a[i] # 0}
  IN  IF nz = {} THEN <<>> ELSE SubSeq(a, 1, MaxOf(nz))

BLimb(a, i) == IF i >= 1 /\ i <= Len(a) THEN a[i] ELSE 0

\* -1, 0 or 1 as a < b, a = b or a > b
BCmp(a, b) ==
  IF Len(a) < Len(b) THEN -1
  ELSE IF Len(a) > Len(b) THEN 1
  ELSE LET df == {i \in 1..Len(a) : a[i] # b[i]}
       IN  IF df = {} THEN 0
           ELSE IF a[MaxOf(df)] < b[MaxOf(df)] THEN -1 ELSE 1

BLt(a, b) == BCmp(a, b) = -1
BLe(a, b) == BCmp(a, b) # 1

\* a + b
BAdd(a, b) ==
  LET n == IF Len(a) < Len(b) THEN Len(b) ELSE Len(a)
      s == [i \in 1..(n + 1) |-> BLimb(a, i) + BLimb(b, i)]
      carry(i) == \E j \in 1..(i - 1) :
                     /\ s[j] >= LimbBase
                     /\ \A k \in (j + 1)..(i - 1) : s[k] = LimbBase - 1
  IN  BStrip([i \in 1..(n + 1) |->
                (s[i] + (IF carry(i) THEN 1 ELSE 0)) % LimbBase])

\* a - b for a >= b
BSub(a, b) ==
  LET d == [i \in 1..Len(a) |-> a[i] - BLimb(b, i)]
      borrow(i) == \E j \in 1..(i - 1) :
                      /\ d[j] < 0
                      /\ \A k \in (j + 1)..(i - 1) : d[k] = 0
  IN  BStrip([i \in 1..Len(a) |->
                (d[i] - (IF borrow(i) THEN 1 ELSE 0) + LimbBase) % LimbBase])

RECURSIVE SumRange(_, _, _)
\* f[lo] + ... + f[hi]
SumRange(f, lo, hi) ==
  IF lo > hi THEN 0
  ELSE IF lo = hi THEN f[lo]
  ELSE SumRange(f, lo, (lo + hi) \div 2) + SumRange(f, (lo + hi) \div 2 + 1, hi)

\* a * b
BMul(a, b) ==
  IF a = <<>> \/ b = <<>> THEN <<>>
  ELSE LET n  == Len(a) + Len(b)
           c  == [k \in 1..n |->
                   LET lo == IF k + 1 - Len(b) > 1 THEN k + 1 - Len(b) ELSE 1
                       hi == IF k < Len(a) THEN k ELSE Len(a)
                   IN  SumRange([i \in lo..hi |-> a[i] * b[k + 1 - i]], lo, hi)]
           d0 == [k \in 1..n |-> c[k] % LimbBase]
           d1 == [k \in 1..n |-> (c[k] \div LimbBase) % LimbBase]
           d2 == [k \in 1..n |-> c[k] \div (LimbBase * LimbBase)]
       IN  BAdd(BAdd(d0, <<0>> \o d1), <<0, 0>> \o d2)

\* a * k for one limb k
BMulLimb(a, k) ==
  LET p == [i \in 1..Len(a) |-> a[i] * k]
  IN  BAdd([i \in 1..Len(a) |-> p[i] % LimbBase],
           <<0>> \o [i \in 1..Len(a) |-> p[i] \div LimbBase])

\* one digit of a long division: cur \div b and cur % b, for cur < b * LimbBase
BDigit(cur, b) ==
  IF BLt(cur, b) THEN [q |-> 0, r |-> cur]
  ELSE IF Len(b) = 1
  THEN [q |-> BVal(cur) \div b[1], r |-> BN(BVal(cur) % b[1])]
  ELSE LET m  == Len(b)
           b2 == b[m] * LimbBase + b[m - 1]
           r3 == (BLimb(cur, m + 1) * LimbBase + BLimb(cur, m)) * LimbBase
                   + BLimb(cur, m - 1)
           qe == r3 \div b2
           qh == IF qe >= LimbBase THEN LimbBase - 1 ELSE qe
           t  == BMulLimb(b, qh)
       IN  IF BLt(cur, t)
           THEN [q |-> qh - 1, r |-> BSub(BAdd(cur, b), t)]
           ELSE [q |-> qh, r |-> BSub(cur, t)]

\* one step of long division: bring down limb and divide
DivStep(st, limb, b) ==
  LET dg == BDigit(BStrip(<<limb>> \o st.r), b)
  IN  [q |-> BStrip(<<dg.q>> \o st.q), r |-> dg.r]

RECURSIVE DivRange(_, _, _, _, _)
\* the long division steps for the limbs hi down to lo of a, from state st
\* (the first test evaluates st before the steps that use it)
DivRange(st, a, b, hi, lo) ==
  IF Len(st.q) < 0 \/ hi < lo THEN st
  ELSE IF hi = lo THEN DivStep(st, a[hi], b)
  ELSE DivRange(DivRange(st, a, b, hi, (hi + lo) \div 2 + 1), a, b,
                (hi + lo) \div 2, lo)

\* quotient q and remainder r of a by b, b > 0 (divmod on naturals)
BDivMod(a, b) ==
  IF BLt(a, b) THEN [q |-> <<>>, r |-> a]
  ELSE DivRange([q |-> <<>>, r |-> <<>>], a, b, Len(a), 1)

\* one step of Euclid's algorithm on the pair p
GcdStep(p) ==
  IF p.b = <<>> THEN p ELSE [a |-> p.b, b |-> BDivMod(p.a, p.b).r]

RECURSIVE GcdIter(_, _)
\* at most n steps of Euclid's algorithm from p
GcdIter(p, n) ==
  IF p.b = <<>> \/ n = 0 THEN p
  ELSE IF n = 1 THEN GcdStep(p)
  ELSE GcdIter(GcdIter(p, n \div 2), n - (n \div 2))

RECURSIVE NatBits(_)
\* the number of bits of the natural k
NatBits(k) == IF k = 0 THEN 0 ELSE 1 + NatBits(k \div 2)

LimbBits == NatBits(LimbBase - 1)

\* the number of bits of a
BBits(a) ==
  IF a = <<>> THEN 0 ELSE NatBits(a[Len(a)]) + (Len(a) - 1) * LimbBits

\* math.gcd on magnitudes (Euclid needs fewer than 2 * bits + 2 steps)
BGcd(a, b) == GcdIter([a |-> a, b |-> b], 2 * BBits(b) + 2).a

\* 2^e
BPow2(e) == [i \in 1..(e \div LimbBits) |-> 0] \o <<2^(e % LimbBits)>>

BOdd(a) == a # <<>> /\ a[1] % 2 = 1

(***************************************************************************)
(* Python floats: 53 significant bits, round to nearest, ties to even.     *)
(***************************************************************************)
MantBits == 53

\* the float nearest to the natural a0
Round53(a0) ==
  Let(a0, LAMBDA a :
    IF BBits(a) <= MantBits THEN a
    ELSE Let(BPow2(BBits(a) - MantBits), LAMBDA pw :
         Let(BDivMod(a, pw), LAMBDA dm :
         Let(BMulLimb(dm.r, 2), LAMBDA twoR :
         Let(BLt(pw, twoR) \/ (twoR = pw /\ BOdd(dm.q)), LAMBDA up :
           BMul(IF up THEN BAdd(dm.q, <<1>>) ELSE dm.q, pw))))))

(***************************************************************************)
(* Python numbers and the operations mymath.py applies to them.            *)
(***************************************************************************)
PyNum(ty, neg, mag) == [ty |-> ty, neg |-> (neg /\ mag # <<>>), mag |-> mag]

\* the Python int k
PyInt(k) == PyNum("int", k < 0, BN(IF k < 0 THEN -k ELSE k))

\* int(x): the number without its fractional part
int(x) ==
  IF "scale" \in DOMAIN x
  THEN PyNum("int", x.neg, BDivMod(x.mag, BPow2(x.scale)).q)
  ELSE PyNum("int", x.neg, x.mag)

IsZero(x) == x.mag = <<>>

\* exact x + y on signed magnitudes
SignedAdd(x, y) ==
  IF x.neg = y.neg THEN PyNum("int", x.neg, BAdd(x.mag, y.mag))
  ELSE IF BLe(y.mag, x.mag) THEN PyNum("int", x.neg, BSub(x.mag, y.mag))
  ELSE PyNum("int", y.neg, BSub(y.mag, x.mag))

\* int op int is an int, anything else a float
ResultTy(x, y) == IF x.ty = "int" /\ y.ty = "int" THEN "int" ELSE "float"

\* the float with the sign of v nearest to it
AsFloat(v) == PyNum("float", v.neg, Round53(v.mag))

\* x as an operand of a float operation (an int operand is converted to the
\* nearest double first)
FOperand(x) == PyNum("int", x.neg, Round53(x.mag))

\* x * y
PyMul(x0, y0) ==
  Let(x0, LAMBDA x : Let(y0, LAMBDA y :
    IF ResultTy(x, y) = "int"
    THEN PyNum("int", x.neg # y.neg, BMul(x.mag, y.mag))
    ELSE Let(FOperand(x), LAMBDA fx : Let(FOperand(y), LAMBDA fy :
           Let(BMul(fx.mag, fy.mag), LAMBDA m :
             PyNum("float", x.neg # y.neg, Round53(m)))))))

\* x + y
PyAdd(x0, y0) ==
  Let(x0, LAMBDA x : Let(y0, LAMBDA y :
    IF ResultTy(x, y) = "int" THEN SignedAdd(x, y)
    ELSE Let(FOperand(x), LAMBDA fx : Let(FOperand(y), LAMBDA fy :
           Let(SignedAdd(fx, fy), LAMBDA v : AsFloat(v))))))

\* -x, x *= -1
PyNeg(x) == PyNum(x.ty, ~x.neg, x.mag)

\* abs(x)
PyAbs(x) == PyNum(x.ty, FALSE, x.mag)

RECURSIVE BPowN(_, _)
\* a^k for a small natural k
BPowN(a, k) ==
  IF k = 0 THEN <<1>> ELSE Let(BPowN(a, k - 1), LAMBDA p : BMul(a, p))

\* x ** k for a natural k (a float power is the double nearest to the result)
PyPow(x0, k) ==
  Let(x0, LAMBDA x : Let(BPowN(Round53(x.mag), k), LAMBDA p :
    IF x.ty = "int" THEN PyNum("int", x.neg /\ k % 2 = 1, p)
    ELSE PyNum("float", x.neg /\ k % 2 = 1, Round53(p))))

\* n / f for ints n and f, f dividing n: the quotient as a float
TrueDivExact(n, f) ==
  Let(BDivMod(n.mag, f.mag), LAMBDA dm :
    PyNum("float", n.neg # f.neg, Round53(dm.q)))

RECURSIVE NatTZ(_)
\* the number of trailing zero bits of k > 0
NatTZ(k) == IF k % 2 = 1 THEN 0 ELSE 1 + NatTZ(k \div 2)

\* the number of trailing zero bits of the natural a > 0
BTZ(a) ==
  LET i == CHOOSE j \in 1..Len(a) : a[j] # 0 /\ \A k \in 1..(j - 1) : a[k] = 0
  IN  (i - 1) * LimbBits + NatTZ(a[i])

\* the float mag / 2^scale; an integer valued one is a PyNum
PyFloat(neg, mag0, scale0) ==
  Let(mag0, LAMBDA mag :
    IF mag = <<>> THEN PyNum("float", FALSE, <<>>)
    ELSE Let(IF BTZ(mag) < scale0 THEN BTZ(mag) ELSE scale0, LAMBDA tz :
         Let(BDivMod(mag, BPow2(tz)).q, LAMBDA m :
           IF scale0 = tz THEN PyNum("float", neg, m)
           ELSE [ty |-> "float", neg |-> neg, mag |-> m, scale |-> scale0 - tz])))

\* n / d for ints n and d # 0: the double nearest to the quotient
TrueDiv(n, d) ==
  Let(MantBits + 2 + BBits(d.mag), LAMBDA k :
  Let(BDivMod(BMul(n.mag, BPow2(k)), d.mag), LAMBDA dm :
  Let(BAdd(BMulLimb(dm.q, 2), IF dm.r = <<>> THEN <<>> ELSE <<1>>), LAMBDA q2 :
    PyFloat(n.neg # d.neg, Round53(q2), k + 1))))

(***************************************************************************)
(* Outcomes of a call: a value, or the exception it raises.                *)
(***************************************************************************)
Ok(v) == [err |-> "none", val |-> v]
Raise(e) == [err |-> e]
IsOk(o) == o.err = "none"

(***************************************************************************)
(* class _Rational.  A _Rational is a record [n, d] of Python numbers.     *)
(***************************************************************************)
IsRational(v) == DOMAIN v = {"n", "d"}

\* __init__ from "if d < 0" on: the fields stored for the ints n1 and d1
Fields(n1, d1) ==
  Let(IF d1.neg THEN PyNeg(n1) ELSE n1, LAMBDA n2 :
  Let(IF d1.neg THEN PyNeg(d1) ELSE d1, LAMBDA d2 :
  Let(PyNum("int", FALSE, BGcd(PyAbs(n2).mag, d2.mag)), LAMBDA f :
    IF IsZero(f) THEN Raise("ZeroDivisionError")
    ELSE Let(TrueDivExact(n2, f), LAMBDA sn : Let(TrueDivExact(d2, f), LAMBDA sd :
           Ok([n |-> sn, d |-> sd]))))))

\* __init__ without the check "if d == 0: return n / d"
RationalNoZeroCheck(n, d) ==
  Let(int(n), LAMBDA n1 : Let(int(d), LAMBDA d1 : Fields(n1, d1)))

\* _Rational(n, d): __init__
_Rational(n, d) ==
  IF IsZero(d) THEN Raise("ZeroDivisionError")
  ELSE Let(int(n), LAMBDA n1 : Let(int(d), LAMBDA d1 : Fields(n1, d1)))

\* rational(n, d) for ints n and d
rational(n, d) == _Rational(n, d)

\* self + other; "other.d" of a number that is no _Rational raises
__add__(self, other) ==
  IF ~IsRational(other) THEN Raise("AttributeError") ELSE
  Let(PyMul(self.n, other.d), LAMBDA p : Let(PyMul(other.n, self.d), LAMBDA q :
  Let(PyAdd(p, q), LAMBDA n : Let(PyMul(self.d, other.d), LAMBDA d :
    _Rational(n, d)))))

\* self * other; "other.n" of a number that is no _Rational raises
__mul__(self, other) ==
  IF ~IsRational(other) THEN Raise("AttributeError") ELSE
  Let(PyMul(self.n, other.n), LAMBDA n : Let(PyMul(self.d, other.d), LAMBDA d :
    _Rational(n, d)))

inv(self) == _Rational(self.d, self.n)

__neg__(self) == _Rational(PyNeg(self.n), self.d)

\* self + (-other)
__sub__(self, other) ==
  Let(__neg__(other), LAMBDA m : IF IsOk(m) THEN __add__(self, m.val) ELSE m)

__abs__(self) == _Rational(PyAbs(self.n), self.d)

\* self ** exp, exp a Python int or a _Rational
__pow__(self, exp) ==
  Let(IF IsRational(exp) /\ exp.d.mag = <<1>> THEN exp.n ELSE exp, LAMBDA e :
    IF ~IsRational(e) /\ e.ty = "int"
    THEN Let(PyPow(self.n, BVal(e.mag)), LAMBDA pn :
         Let(PyPow(self.d, BVal(e.mag)), LAMBDA pd :
           IF e.neg THEN _Rational(pd, pn) ELSE _Rational(pn, pd)))
    ELSE IF IsRational(e) THEN Raise("TypeError")
    ELSE IF IsZero(self.n) /\ e.neg THEN Raise("ZeroDivisionError")
    ELSE Ok([ty |-> "float", base |-> self, exp |-> e]))

\* self << other: a float numerator has no <<
__lshift__(self, other) ==
  IF ~IsRational(other) THEN Raise("AttributeError")
  ELSE IF other.d.mag # <<1>> THEN Raise("TypeError")
  ELSE IF self.n.ty = "int" /\ other.n.ty = "int"
  THEN Let(PyMul(self.n, PyNum("int", FALSE, BPow2(BVal(other.n.mag)))), LAMBDA n :
         _Rational(n, self.d))
  ELSE Raise("TypeError")

\* self >> other
__rshift__(self, other) ==
  IF ~IsRational(other) THEN Raise("AttributeError")
  ELSE IF other.d.mag # <<1>> THEN Raise("TypeError")
  ELSE IF self.d.ty = "int" /\ other.n.ty = "int"
  THEN Let(PyMul(self.d, PyNum("int", FALSE, BPow2(BVal(other.n.mag)))), LAMBDA d :
         _Rational(self.n, d))
  ELSE Raise("TypeError")

(***************************************************************************)
(* State.  rat: a client of class _Rational; tr: one call of _trim, by     *)
(* line; co: a client of the arithmetic coder; ps: one call of             *)
(* _parse_number; fm: one call of a function of febrl_math.py or           *)
(* distance.py; hm: the training file reader of trainhmm.py; ap: one call  *)
(* of _approximate, by line; sv: a client of the methods trim and          *)
(* approximate of class _Rational.                                         *)
(***************************************************************************)
VARIABLES rat, tr, co, ps, fm, hm, ap, sv

vars == <<rat, tr, co, ps, fm, hm, ap, sv>>

RatIdle == [pc |-> "idle"]
TrimIdle == [pc |-> "idle"]
CoderIdle == [pc |-> "idle"]
ParseIdle == [pc |-> "idle"]
MathIdle == [pc |-> "idle"]
HmmIdle == [pc |-> "idle"]
ApproxIdle == [pc |-> "idle"]
ServiceIdle == [pc |-> "idle"]

MaxNum == 1
MaxDen == 1
MaxExp == 2

\* numerators and denominators the client passes: small ones, denominators
\* just above 2^18, and a pair just above 2^60
SmallNums == {PyInt(k) : k \in (0 - MaxNum)..MaxNum}
SmallDens == {PyInt(k) : k \in (0 - MaxDen)..MaxDen}
ProbeDens == {PyInt(2^18 + 2), PyInt(2^18 + 3)}
BigNum == PyNum("int", FALSE, BAdd(BPow2(60), BN(2)))
BigDen == PyNum("int", FALSE, BAdd(BPow2(60), BN(6)))
Nums == SmallNums \cup {BigNum}
Dens == SmallDens \cup ProbeDens \cup {BigDen}
Exps == {PyInt(k) : k \in (0 - MaxExp)..MaxExp}

RatInit ==
  /\ \E n1 \in Nums, d1 \in Dens, n2 \in SmallNums, d2 \in SmallDens \cup ProbeDens :
       rat = [pc |-> "start", n1 |-> n1, d1 |-> d1, n2 |-> n2, d2 |-> d2]
  /\ tr = TrimIdle
  /\ co = CoderIdle
  /\ ps = ParseIdle /\ fm = MathIdle /\ hm = HmmIdle
  /\ ap = ApproxIdle /\ sv = ServiceIdle

\* a = rational(n1, d1); b = rational(n2, d2), each in its own try block
Construct ==
  /\ rat.pc = "start"
  /\ LET a == rational(rat.n1, rat.d1)
         b == rational(rat.n2, rat.d2)
     IN  rat' = [pc |-> "ready",
                 n1 |-> rat.n1, d1 |-> rat.d1, n2 |-> rat.n2, d2 |-> rat.d2,
                 a |-> a, b |-> b]
  /\ UNCHANGED <<tr, co, ps, fm, hm, ap, sv>>

\* the state after the client evaluated an expression named op to res
Applied(op, res) ==
  [pc |-> "done", n1 |-> rat.n1, d1 |-> rat.d1, n2 |-> rat.n2, d2 |-> rat.d2,
   a |-> rat.a, b |-> rat.b, op |-> op, res |-> res]

\* a + b
Add ==
  /\ rat.pc = "ready" /\ IsOk(rat.a) /\ IsOk(rat.b)
  /\ rat' = Applied("add", __add__(rat.a.val, rat.b.val))
  /\ UNCHANGED <<tr, co, ps, fm, hm, ap, sv>>

\* a - b
Sub ==
  /\ rat.pc = "ready" /\ IsOk(rat.a) /\ IsOk(rat.b)
  /\ rat' = Applied("sub", __sub__(rat.a.val, rat.b.val))
  /\ UNCHANGED <<tr, co, ps, fm, hm, ap, sv>>

\* a * b
Mul ==
  /\ rat.pc = "ready" /\ IsOk(rat.a) /\ IsOk(rat.b)
  /\ rat' = Applied("mul", __mul__(rat.a.val, rat.b.val))
  /\ UNCHANGED <<tr, co, ps, fm, hm, ap, sv>>

\* -a
Neg ==
  /\ rat.pc = "ready" /\ IsOk(rat.a)
  /\ rat' = Applied("neg", __neg__(rat.a.val))
  /\ UNCHANGED <<tr, co, ps, fm, hm, ap, sv>>

\* a.inv()
Inv ==
  /\ rat.pc = "ready" /\ IsOk(rat.a)
  /\ rat' = Applied("inv", inv(rat.a.val))
  /\ UNCHANGED <<tr, co, ps, fm, hm, ap, sv>>

\* abs(a)
Abs ==
  /\ rat.pc = "ready" /\ IsOk(rat.a)
  /\ rat' = Applied("abs", __abs__(rat.a.val))
  /\ UNCHANGED <<tr, co, ps, fm, hm, ap, sv>>

\* a ** e for a Python int e
PowInt ==
  /\ rat.pc = "ready" /\ IsOk(rat.a)
  /\ \E e \in Exps : rat' = Applied("pow", __pow__(rat.a.val, e))
  /\ UNCHANGED <<tr, co, ps, fm, hm, ap, sv>>

\* a ** b
PowRat ==
  /\ rat.pc = "ready" /\ IsOk(rat.a) /\ IsOk(rat.b)
  /\ rat' = Applied("pow", __pow__(rat.a.val, rat.b.val))
  /\ UNCHANGED <<tr, co, ps, fm, hm, ap, sv>>

\* a << b
Lshift ==
  /\ rat.pc = "ready" /\ IsOk(rat.a) /\ IsOk(rat.b)
  /\ rat' = Applied("lshift", __lshift__(rat.a.val, rat.b.val))
  /\ UNCHANGED <<tr, co, ps, fm, hm, ap, sv>>

\* a >> b
Rshift ==
  /\ rat.pc = "ready" /\ IsOk(rat.a) /\ IsOk(rat.b)
  /\ rat' = Applied("rshift", __rshift__(rat.a.val, rat.b.val))
  /\ UNCHANGED <<tr, co, ps, fm, hm, ap, sv>>

\* a << k for a Python int k, as in "delta << 1" of arith_coder_encode
LshiftInt ==
  /\ rat.pc = "ready" /\ IsOk(rat.a)
  /\ \E k \in Exps :
       rat' = Applied("lshift_int", __lshift__(rat.a.val, k)) @@ [k |-> k]
  /\ UNCHANGED <<tr, co, ps, fm, hm, ap, sv>>

\* a >> k for a Python int k
RshiftInt ==
  /\ rat.pc = "ready" /\ IsOk(rat.a)
  /\ \E k \in Exps :
       rat' = Applied("rshift_int", __rshift__(rat.a.val, k)) @@ [k |-> k]
  /\ UNCHANGED <<tr, co, ps, fm, hm, ap, sv>>

\* (a + b) - b
AddSub ==
  /\ rat.pc = "ready" /\ IsOk(rat.a) /\ IsOk(rat.b)
  /\ LET s == __add__(rat.a.val, rat.b.val)
     IN  rat' = Applied("addsub", IF IsOk(s) THEN __sub__(s.val, rat.b.val) ELSE s)
  /\ UNCHANGED <<tr, co, ps, fm, hm, ap, sv>>

RatNext ==
  \/ Construct
  \/ Add
  \/ Sub
  \/ Mul
  \/ Neg
  \/ Inv
  \/ Abs
  \/ PowInt
  \/ PowRat
  \/ Lshift
  \/ Rshift
  \/ LshiftInt
  \/ RshiftInt
  \/ AddSub

SpecRat == RatInit /\ [][RatNext]_vars

\* the _Rational objects the client holds
Held ==
  IF rat.pc \in {"idle", "start"} THEN {}
  ELSE {o.val : o \in {x \in {rat.a, rat.b} : IsOk(x)}}
       \cup (IF rat.pc = "done" /\ IsOk(rat.res) /\ IsRational(rat.res.val)
             THEN {rat.res.val} ELSE {})

\* d > 0 and gcd(|n|, d) = 1
Reduced(r) == ~r.d.neg /\ ~IsZero(r.d) /\ BGcd(r.n.mag, r.d.mag) = <<1>>

\* C1: every Rational the client holds, constructed or returned by an
\* operation, has a positive denominator and gcd(|n|, d) = 1 (the stored
\* numbers are compared by value, whatever their Python type).
C1_ReductionInvariant == \A r \in Held : Reduced(r)

\* C2: a construction with denominator 0 raises ZeroDivisionError for every
\* numerator, 0 included, and so does inverting the zero Rational.
C2_ZeroDenominatorRaises ==
  /\ (rat.pc \in {"ready", "done"} /\ IsZero(rat.d1))
       => rat.a = Raise("ZeroDivisionError")
  /\ (rat.pc \in {"ready", "done"} /\ IsZero(rat.d2))
       => rat.b = Raise("ZeroDivisionError")
  /\ (rat.pc = "done" /\ rat.op = "inv" /\ IsZero(rat.a.val.n))
       => rat.res = Raise("ZeroDivisionError")

\* the construction 0/0 has raised and the zero Rational has been inverted
C2_Witness ==
  /\ rat.pc = "done" /\ rat.op = "inv"
  /\ IsZero(rat.n2) /\ IsZero(rat.d2)
  /\ rat.b = Raise("ZeroDivisionError")
  /\ IsZero(rat.a.val.n)
  /\ rat.res = Raise("ZeroDivisionError")

\* C3: (a + b) - b has the numerator and the denominator of a.
C3_AddThenSubtract ==
  (rat.pc = "done" /\ rat.op = "addsub")
    => /\ IsOk(rat.res)
       /\ rat.res.val.n = rat.a.val.n
       /\ rat.res.val.d = rat.a.val.d

(***************************************************************************)
(* _trim(n, d, max_d) on Python ints, one action per block of the body.    *)
(***************************************************************************)
MaxTrimN == 6
MaxTrimD == 7
MaxTrimMaxD == 5

TrimInit ==
  /\ \E n \in 0..MaxTrimN, d \in 1..MaxTrimD, max_d \in 1..MaxTrimMaxD :
       tr = [pc |-> "enter", n0 |-> n, d0 |-> d, max_d |-> max_d]
  /\ rat = RatIdle
  /\ co = CoderIdle
  /\ ps = ParseIdle /\ fm = MathIdle /\ hm = HmmIdle
  /\ ap = ApproxIdle /\ sv = ServiceIdle

\* the state of a call that has ended with outcome res
TrimDone(res) ==
  [pc |-> "done", n0 |-> tr.n0, d0 |-> tr.d0, max_d |-> tr.max_d, res |-> res]

\* "if max_d == 1: return n / d, 1", else the assignments before the loop
TrimEnter ==
  /\ tr.pc = "enter"
  /\ tr' = IF tr.max_d = 1
           THEN TrimDone(Ok([n |-> TrueDiv(PyInt(tr.n0), PyInt(tr.d0)),
                             d |-> PyInt(1)]))
           ELSE [pc |-> "loop", n0 |-> tr.n0, d0 |-> tr.d0, max_d |-> tr.max_d,
                 n |-> tr.n0, d |-> tr.d0,
                 last_n |-> 0, last_d |-> 1, current_n |-> 1, current_d |-> 0,
                 before_last_n |-> 0, before_last_d |-> 1, mod |-> 0]
  /\ UNCHANGED <<rat, co, ps, fm, hm, ap, sv>>

\* one pass of the body of "while 1"
TrimIter ==
  /\ tr.pc = "loop"
  /\ LET div == tr.n \div tr.d
         mod == tr.n % tr.d
         next_n == tr.last_n + tr.current_n * div
         next_d == tr.last_d + tr.current_d * div
     IN  tr' = [pc |-> IF mod = 0 \/ next_d >= tr.max_d THEN "tail" ELSE "loop",
                n0 |-> tr.n0, d0 |-> tr.d0, max_d |-> tr.max_d,
                n |-> tr.d, d |-> mod,
                last_n |-> tr.current_n, last_d |-> tr.current_d,
                current_n |-> next_n, current_d |-> next_d,
                before_last_n |-> tr.last_n, before_last_d |-> tr.last_d,
                mod |-> mod]
  /\ UNCHANGED <<rat, co, ps, fm, hm, ap, sv>>

\* the code after the loop.  "i = (max_d - before_last_d) / last_d" divides by
\* last_d; alternative and last are built from nonzero denominators (about
\* max_d, and last_d); "num = _Rational(n, d)" takes the n and d the loop has
\* overwritten, d being the last mod; "<" between two _Rational objects is
\* not defined (the class has __cmp__ only) and raises TypeError.
TrimTail ==
  /\ tr.pc = "tail"
  /\ tr' = TrimDone(
       IF tr.current_d = tr.max_d
       THEN Ok([n |-> PyInt(tr.current_n), d |-> PyInt(tr.current_d)])
       ELSE IF tr.last_d = 0 THEN Raise("ZeroDivisionError")
       ELSE LET num == _Rational(PyInt(tr.n), PyInt(tr.d))
            IN  IF IsOk(num) THEN Raise("TypeError") ELSE num)
  /\ UNCHANGED <<rat, co, ps, fm, hm, ap, sv>>

TrimNext ==
  \/ TrimEnter
  \/ TrimIter
  \/ TrimTail

SpecTrim == TrimInit /\ [][TrimNext]_vars

\* the returned pair (n', d') is the fraction num / den
TrimNum(v) == BMul(v.n.mag, IF "scale" \in DOMAIN v.d THEN BPow2(v.d.scale) ELSE <<1>>)
TrimDen(v) == BMul(v.d.mag, IF "scale" \in DOMAIN v.n THEN BPow2(v.n.scale) ELSE <<1>>)

\* C4: for n >= 0, d >= 1, max_d >= 1 the call returns normally a pair of
\* ints (n', d') with 1 <= d' <= max_d, and for max_d = 1 the pair is the
\* truncated quotient of n by d over 1.
C4_TrimDenominatorBound ==
  tr.pc = "done" =>
    /\ IsOk(tr.res)
    /\ tr.res.val.n.ty = "int" /\ tr.res.val.d.ty = "int"
    /\ BLe(<<1>>, tr.res.val.d.mag) /\ BLe(tr.res.val.d.mag, BN(tr.max_d))
    /\ tr.max_d = 1 => tr.res.val = [n |-> PyInt(tr.n0 \div tr.d0), d |-> PyInt(1)]

\* |a - b| of naturals
BDist(a, b) == IF BLe(b, a) THEN BSub(a, b) ELSE BSub(b, a)

\* p/q is strictly closer to n0/d0 than num/den is
Closer(p, q, num, den) ==
  BLt(BMul(BDist(BN(p * tr.d0), BN(tr.n0 * q)), den),
      BMul(BDist(BMul(num, BN(tr.d0)), BMul(BN(tr.n0), den)), BN(q)))

\* C5: the call returns a fraction such that no p/q with 1 <= q <= max_d is
\* strictly closer to n/d; when the reduced denominator of n/d is at most
\* max_d the result equals n/d.
C5_TrimBestApproximation ==
  tr.pc = "done" =>
    /\ IsOk(tr.res)
    /\ \A q \in 1..tr.max_d : \A p \in 0..(tr.n0 * q + 1) :
         ~Closer(p, q, TrimNum(tr.res.val), TrimDen(tr.res.val))
    /\ (\E q \in 1..tr.max_d : \E p \in 0..(tr.n0 * q) : p * tr.d0 = tr.n0 * q)
         => BMul(TrimNum(tr.res.val), BN(tr.d0)) = BMul(BN(tr.n0), TrimDen(tr.res.val))

(***************************************************************************)
(* The arithmetic coder.  A text is a sequence of symbols; a dict is the   *)
(* sequence of its items in insertion order, which is the order Python     *)
(* iterates it in.                                                         *)
(***************************************************************************)
\* the character "\x00"
NUL == "NUL"

\* d.get(k, default)
DictGet(d, k, default) ==
  IF \E i \in 1..Len(d) : d[i].c = k
  THEN d[CHOOSE i \in 1..Len(d) : d[i].c = k].v
  ELSE default

\* d[k] = v: a present key keeps its place, a new key goes last
DictSet(d, k, v) ==
  IF \E i \in 1..Len(d) : d[i].c = k
  THEN [i \in 1..Len(d) |-> IF d[i].c = k THEN [c |-> k, v |-> v] ELSE d[i]]
  ELSE Append(d, [c |-> k, v |-> v])

\* a body "counts[c] = 1" in place of the counting one
CountStepNoIncrement(counts, c) == DictSet(counts, c, 1)

\* counts[c] = counts.get(c, 0) + 1
CountStep(counts, c) == DictSet(counts, c, DictGet(counts, c, 0) + 1)

RECURSIVE CountLoop(_, _, _)
\* "for c in text" from position i on
CountLoop(counts, text, i) ==
  IF i > Len(text) THEN counts
  ELSE CountLoop(CountStep(counts, text[i]), text, i + 1)

RECURSIVE SumValues(_, _)
\* sum(counts.values()) from item i on
SumValues(counts, i) ==
  IF i > Len(counts) THEN 0 ELSE counts[i].v + SumValues(counts, i + 1)

\* a loop body without "prev = next"
TrainStepKeepPrev(st, item, tot_letters) ==
  Let(rational(PyInt(st.tot + item.v), PyInt(tot_letters)).val, LAMBDA next :
    [tot |-> st.tot + item.v, prev |-> st.prev,
     probs |-> DictSet(st.probs, item.c, <<st.prev, next>>)])

\* the body of "for c, count in list(counts.items())"
TrainStep(st, item, tot_letters) ==
  Let(rational(PyInt(st.tot + item.v), PyInt(tot_letters)).val, LAMBDA next :
    [tot |-> st.tot + item.v, prev |-> next,
     probs |-> DictSet(st.probs, item.c, <<st.prev, next>>)])

RECURSIVE TrainLoop(_, _, _, _)
TrainLoop(st, counts, i, tot_letters) ==
  IF i > Len(counts) THEN st
  ELSE Let(TrainStep(st, counts[i], tot_letters), LAMBDA st1 :
         TrainLoop(st1, counts, i + 1, tot_letters))

\* the function without its first assert
TrainUnchecked(text) ==
  Let(DictSet(CountLoop(<<>>, text, 1), NUL, 1), LAMBDA counts :
  Let(SumValues(counts, 1), LAMBDA tot_letters :
  Let(TrainLoop([tot |-> 0, prev |-> rational(PyInt(0), PyInt(1)).val,
                 probs |-> <<>>], counts, 1, tot_letters), LAMBDA st :
    IF st.tot = tot_letters THEN Ok(st.probs)
    ELSE Raise("AssertionError"))))

arith_coder_train(text) ==
  IF \E i \in 1..Len(text) : text[i] = NUL THEN Raise("AssertionError")
  ELSE Let(DictSet(CountLoop(<<>>, text, 1), NUL, 1), LAMBDA counts :
       Let(SumValues(counts, 1), LAMBDA tot_letters :
       Let(TrainLoop([tot |-> 0, prev |-> rational(PyInt(0), PyInt(1)).val,
                      probs |-> <<>>], counts, 1, tot_letters), LAMBDA st :
         IF st.tot = tot_letters THEN Ok(st.probs)
         ELSE Raise("AssertionError"))))

\* the loop body with minval assigned before maxval
NarrowMinFirst(minval, maxval, prob_range) ==
  Let(__sub__(maxval, minval).val, LAMBDA delta :
  Let(__mul__(prob_range[1], delta).val, LAMBDA lo :
  Let(__add__(minval, lo).val, LAMBDA newmin :
  Let(__mul__(prob_range[2], delta).val, LAMBDA hi :
  Let(__add__(newmin, hi).val, LAMBDA newmax :
    [minval |-> newmin, maxval |-> newmax])))))

\* delta = maxval - minval; maxval = minval + prob_range[1] * delta;
\* minval = minval + prob_range[0] * delta  (prob_range is 1-indexed here)
Narrow(minval, maxval, prob_range) ==
  Let(__sub__(maxval, minval).val, LAMBDA delta :
  Let(__mul__(prob_range[2], delta).val, LAMBDA hi :
  Let(__add__(minval, hi).val, LAMBDA newmax :
  Let(__mul__(prob_range[1], delta).val, LAMBDA lo :
  Let(__add__(minval, lo).val, LAMBDA newmin :
    [minval |-> newmin, maxval |-> newmax])))))

MaxLen == 2
MaxSkew == 5
MaxRun == 10
MaxExt == 1

\* all texts over alphabet S of k to n symbols
Texts(S, k, n) == UNION {[1..m -> S] : m \in k..n}
Run(c, k) == [i \in 1..k |-> c]

\* the corpora trained on: all short ones, and skewed ones a...ab
Corpora ==
  Texts({"a", "b", NUL}, 0, MaxLen) \cup {Run("a", k) \o <<"b">> : k \in 1..MaxSkew}

\* the texts encoded: all short ones, and runs of b
EncTexts == Texts({"a", "b"}, 0, MaxLen) \cup {Run("b", k) : k \in 1..MaxRun}

\* the texts a second call appends to the text of the first
Exts == Texts({"a", "b"}, 1, MaxExt)

CoderInit ==
  /\ \E corpus \in Corpora : co = [pc |-> "start", corpus |-> corpus]
  /\ rat = RatIdle
  /\ tr = TrimIdle
  /\ ps = ParseIdle /\ fm = MathIdle /\ hm = HmmIdle
  /\ ap = ApproxIdle /\ sv = ServiceIdle

\* probs = arith_coder_train(corpus)
Train ==
  /\ co.pc = "start"
  /\ LET probs == arith_coder_train(co.corpus)
     IN  co' = [pc |-> IF IsOk(probs) THEN "trained" ELSE "failed",
                corpus |-> co.corpus, probs |-> probs, complete |-> TRUE]
  /\ UNCHANGED <<rat, tr, ps, fm, hm, ap, sv>>

\* the items of table d from item i on, without those of key k
RECURSIVE Without(_, _, _)
Without(d, k, i) ==
  IF i > Len(d) THEN <<>>
  ELSE IF d[i].c = k THEN Without(d, k, i + 1)
  ELSE <<d[i]>> \o Without(d, k, i + 1)

\* the client passes on a table that lacks the terminator: probs maps the
\* symbols of the corpus only
TableWithoutTerminator ==
  /\ co.pc = "trained" /\ co.complete
  /\ co' = [co EXCEPT !.probs = Ok(Without(co.probs.val, NUL, 1)),
                      !.complete = FALSE]
  /\ UNCHANGED <<rat, tr, ps, fm, hm, ap, sv>>

\* a call arith_coder_encode(text, probs) at its first line
Entered(text, calls, first) ==
  [pc |-> "loop", corpus |-> co.corpus, probs |-> co.probs,
   complete |-> co.complete, text |-> text,
   pos |-> 1, minval |-> rational(PyInt(0), PyInt(1)).val,
   maxval |-> rational(PyInt(1), PyInt(1)).val, calls |-> calls, first |-> first]

\* the call has ended with ret
Returned(ret) ==
  [pc |-> "done", corpus |-> co.corpus, probs |-> co.probs,
   complete |-> co.complete, text |-> co.text,
   calls |-> co.calls, first |-> co.first, ret |-> ret]

\* the client calls arith_coder_encode(text, probs)
EncodeStart ==
  /\ co.pc = "trained"
  /\ \E text \in EncTexts : co' = Entered(text, 1, <<>>)
  /\ UNCHANGED <<rat, tr, ps, fm, hm, ap, sv>>

\* a loop that passes over a symbol the table lacks ("if c in probs")
EncodeStepSkipUnknown ==
  /\ co.pc = "loop"
  /\ LET input == Append(co.text, NUL)
         c == input[co.pos]
         prob_range == DictGet(co.probs.val, c, <<>>)
     IN  co' = IF co.pos > Len(input) THEN [co EXCEPT !.pc = "halve"]
               ELSE IF prob_range = <<>> THEN [co EXCEPT !.pos = co.pos + 1]
               ELSE Let(Narrow(co.minval, co.maxval, prob_range), LAMBDA nw :
                      [co EXCEPT !.pos = co.pos + 1,
                                 !.minval = nw.minval, !.maxval = nw.maxval])
  /\ UNCHANGED <<rat, tr, ps, fm, hm, ap, sv>>

\* one pass of "for c in text + NUL", or the end of the loop
EncodeStep ==
  /\ co.pc = "loop"
  /\ LET input == Append(co.text, NUL)
         c == input[co.pos]
         prob_range == DictGet(co.probs.val, c, <<>>)
     IN  co' = IF co.pos > Len(input) THEN [co EXCEPT !.pc = "halve"]
               ELSE IF prob_range = <<>> THEN Returned(Raise("KeyError"))
               ELSE Let(Narrow(co.minval, co.maxval, prob_range), LAMBDA nw :
                      [co EXCEPT !.pos = co.pos + 1,
                                 !.minval = nw.minval, !.maxval = nw.maxval])
  /\ UNCHANGED <<rat, tr, ps, fm, hm, ap, sv>>

\* "delta = (maxval - minval) / 2": _Rational defines __div__ but not
\* __truediv__, so "/" raises TypeError and nothing after it runs
EncodeFinish ==
  /\ co.pc = "halve"
  /\ co' = Returned(Let(__sub__(co.maxval, co.minval), LAMBDA d :
                      IF IsOk(d) THEN Raise("TypeError") ELSE d))
  /\ UNCHANGED <<rat, tr, ps, fm, hm, ap, sv>>

\* the client calls arith_coder_encode(text + s, probs) after the first call
EncodeAgain ==
  /\ co.pc = "done" /\ co.calls = 1 /\ Len(co.text) <= MaxLen
  /\ \E s \in Exts :
       co' = Entered(co.text \o s, 2, <<[text |-> co.text, ret |-> co.ret]>>)
  /\ UNCHANGED <<rat, tr, ps, fm, hm, ap, sv>>

CoderNext ==
  \/ Train
  \/ TableWithoutTerminator
  \/ EncodeStart
  \/ EncodeStep
  \/ EncodeFinish
  \/ EncodeAgain

SpecCoder == CoderInit /\ [][CoderNext]_vars

(***************************************************************************)
(* Exact comparison of the values two _Rational objects hold.              *)
(***************************************************************************)
\* x.n * y.d - y.n * x.d as an exact int (its sign orders x and y)
Cross(x, y) ==
  SignedAdd(PyMul(int(x.n), int(y.d)), PyNeg(PyMul(int(y.n), int(x.d))))

RLt(x, y) == Cross(x, y).neg
RLe(x, y) == ~Cross(y, x).neg
REq(x, y) == IsZero(Cross(x, y))

\* hi - lo as an exact fraction
Width(lo, hi) == [n |-> Cross(hi, lo), d |-> PyMul(int(hi.d), int(lo.d))]

\* the value of a small natural number
Nat0(x) == BVal(x.mag)

\* x holds num / den in lowest terms
Holds(x, num, den) == ~x.n.neg /\ Nat0(x.n) = num /\ Nat0(x.d) = den

Occurrences(text, c) == Cardinality({i \in 1..Len(text) : text[i] = c})

\* the positions of text that hold the first occurrence of their symbol
FirstPositions(text) ==
  {i \in 1..Len(text) : \A j \in 1..(i - 1) : text[j] # text[i]}

\* the table is the one train was asked for on a corpus without the terminator
TrainedOnText ==
  /\ co.pc \notin {"idle", "start"} /\ Occurrences(co.corpus, NUL) = 0
  /\ co.complete

\* C6: for every text without the terminator, train returns a table whose
\* intervals, in iteration order, partition [0, 1): the first lower bound is
\* 0, each lower bound equals the previous upper bound, every interval has
\* lower < upper, and the last upper bound is 1.
C6_TrainingPartition ==
  TrainedOnText =>
    /\ IsOk(co.probs)
    /\ LET p == co.probs.val
       IN  /\ Len(p) >= 1
           /\ Holds(p[1].v[1], 0, 1)
           /\ \A i \in 2..Len(p) : REq(p[i].v[1], p[i - 1].v[2])
           /\ \A i \in 1..Len(p) : RLt(p[i].v[1], p[i].v[2])
           /\ Holds(p[Len(p)].v[2], 1, 1)

\* a table of three intervals has been trained on "ab"
C6_Witness ==
  /\ co.pc = "trained" /\ co.corpus = <<"a", "b">>
  /\ IsOk(co.probs) /\ Len(co.probs.val) = 3

\* C7: train assigns intervals to the distinct symbols of the text in the
\* order of their first occurrence, the terminator last; the width of a
\* symbol's interval is its number of occurrences over len(text) + 1, the
\* terminator's 1 / (len(text) + 1); train("aab") yields a:[0, 1/2),
\* b:[1/2, 3/4), terminator:[3/4, 1).
C7_TrainingWidthsAndOrder ==
  TrainedOnText =>
    /\ IsOk(co.probs)
    /\ LET p == co.probs.val
           text == co.corpus
           firsts == FirstPositions(text)
           cnt(c) == IF c = NUL THEN 1 ELSE Occurrences(text, c)
       IN  /\ Len(p) = Cardinality(firsts) + 1
           /\ p[Len(p)].c = NUL
           /\ \A i \in 1..(Len(p) - 1) :
                \E k \in firsts : /\ p[i].c = text[k]
                                  /\ Cardinality({j \in firsts : j < k}) = i - 1
           /\ \A i \in 1..Len(p) :
                LET w == Width(p[i].v[1], p[i].v[2])
                IN  /\ ~w.n.neg
                    /\ Nat0(w.n) * (Len(text) + 1) = cnt(p[i].c) * Nat0(w.d)
           /\ text = <<"a", "a", "b">> =>
                /\ p[1].c = "a" /\ Holds(p[1].v[1], 0, 1) /\ Holds(p[1].v[2], 1, 2)
                /\ p[2].c = "b" /\ Holds(p[2].v[1], 1, 2) /\ Holds(p[2].v[2], 3, 4)
                /\ p[3].c = NUL /\ Holds(p[3].v[1], 3, 4) /\ Holds(p[3].v[2], 1, 1)

\* the table of "aab" has been trained
C7_Witness ==
  /\ co.pc = "trained" /\ co.corpus = <<"a", "a", "b">>
  /\ IsOk(co.probs)
  /\ [i \in 1..Len(co.probs.val) |-> co.probs.val[i].c] = <<"a", "b", NUL>>

\* C8: every pass of the narrowing loop (the terminator's included) yields a
\* sub-interval: old_minval <= new_minval < new_maxval <= old_maxval, and the
\* width strictly decreases unless the symbol's table interval is [0, 1).
C8_NarrowingSubInterval ==
  [][(co.pc = "loop" /\ co'.pc = "loop" /\ co'.pos = co.pos + 1) =>
       /\ RLe(co.minval, co'.minval)
       /\ RLt(co'.minval, co'.maxval)
       /\ RLe(co'.maxval, co.maxval)
       /\ \/ RLt(Width(co'.minval, co'.maxval), Width(co.minval, co.maxval))
          \/ LET r == DictGet(co.probs.val, Append(co.text, NUL)[co.pos], <<>>)
             IN  Holds(r[1], 0, 1) /\ Holds(r[2], 1, 1)]_vars

\* every symbol of text has an interval in the table
InTable(text) ==
  \A i \in 1..Len(text) : DictGet(co.probs.val, text[i], <<>>) # <<>>

\* C9: for a table produced by train and texts p and s whose symbols are all
\* in the table, encode(p + s, probs) >= encode(p, probs).
C9_EncoderMonotonicity ==
  (co.pc = "done" /\ co.calls = 2 /\ co.complete /\ InTable(co.text)) =>
    /\ IsOk(co.first[1].ret)
    /\ IsOk(co.ret)
    /\ co.ret.val >= co.first[1].ret.val

\* the corpus is one symbol, once or repeated
SingleSymbolCorpus ==
  /\ co.pc \notin {"idle", "start", "failed", "trained"}
  /\ co.complete
  /\ Len(co.corpus) >= 1
  /\ \A i \in 1..Len(co.corpus) : co.corpus[i] = co.corpus[1] /\ co.corpus[i] # NUL

Absent ==
  LET input == Append(co.text, NUL)
  IN  {i \in 1..Len(input) : DictGet(co.probs.val, input[i], <<>>) = <<>>}

FirstAbsent == CHOOSE i \in Absent : \A j \in Absent : i <= j

\* C11: when some symbol of text, or the terminator, is absent from probs,
\* encode fails with KeyError and returns no bit count: each pass before the
\* first absent symbol (text first, terminator last) goes on to the next
\* position, the pass at the first absent symbol ends the call with KeyError,
\* the halving is never reached, and probs is left as it was.
C11_UnknownSymbolLookup ==
  [][(co.pc = "loop" /\ Absent # {}) =>
       /\ co'.probs = co.probs
       /\ co'.pc \in {"loop", "done"}
       /\ co'.pc = "loop" => co.pos < FirstAbsent
       /\ co'.pc = "done" => /\ co.pos = FirstAbsent
                             /\ co'.ret = Raise("KeyError")]_vars

\* encode("ab", probs) for the table of "a" has failed at the "b"
C11_Witness ==
  /\ co.pc = "done" /\ co.complete /\ co.corpus = <<"a">>
  /\ co.text = <<"a", "b">> /\ co.calls = 1 /\ co.ret = Raise("KeyError")

\* C12: when the text contains the terminator, at any position, train fails
\* with AssertionError and neither builds nor returns a table.
C12_TerminatorInCorpus ==
  (co.pc \notin {"idle", "start"} /\ Occurrences(co.corpus, NUL) > 0) =>
    /\ co.pc = "failed"
    /\ co.probs = Raise("AssertionError")

\* train has failed on a text that ends with the terminator
C12_Witness ==
  /\ co.pc = "failed" /\ co.corpus = <<"a", NUL>>
  /\ co.probs = Raise("AssertionError")

(***************************************************************************)
(* _parse_number.  A str is the sequence of its characters.                *)
(***************************************************************************)
DigitChars == <<"0", "1", "2", "3", "4", "5", "6", "7", "8", "9">>

IsDigit(ch) == \E i \in 1..Len(DigitChars) : DigitChars[i] = ch

DigitVal(ch) == (CHOOSE i \in 1..Len(DigitChars) : DigitChars[i] = ch) - 1

RECURSIVE NatOf(_, _)
\* the value of the digits s[1..i]
NatOf(s, i) == IF i = 0 THEN 0 ELSE 10 * NatOf(s, i - 1) + DigitVal(s[i])

\* int(s) of a str: an optional "-" and one digit or more, else ValueError
int_str(s) ==
  LET neg == Len(s) >= 1 /\ s[1] = "-"
      digits == IF neg THEN Tail(s) ELSE s
  IN  IF Len(digits) >= 1 /\ \A i \in 1..Len(digits) : IsDigit(digits[i])
      THEN Ok(PyInt(IF neg THEN 0 - NatOf(digits, Len(digits))
                    ELSE NatOf(digits, Len(digits))))
      ELSE Raise("ValueError")

\* ch in s
Contains(s, ch) == \E i \in 1..Len(s) : s[i] = ch

\* s.split(ch, 1) of a str that contains ch
Split(s, ch) ==
  LET i == CHOOSE j \in 1..Len(s) : s[j] = ch /\ \A k \in 1..(j - 1) : s[k] # ch
  IN  [l |-> SubSeq(s, 1, i - 1), r |-> SubSeq(s, i + 1, Len(s))]

\* self / other: the class defines __div__ and __rdiv__ but no __truediv__
__truediv__(self, other) == Raise("TypeError")

\* other + self
__radd__(self, other) == __add__(self, other)

\* the branch "/" of _parse_number
ParseFraction(n, d) ==
  IF ~IsOk(n) THEN n ELSE IF ~IsOk(d) THEN d ELSE __truediv__(n.val, d.val)

\* the branch "e" of _parse_number, mant parsed and exp still a str
ParseExponent(mant, exp) ==
  IF ~IsOk(mant) THEN mant
  ELSE Let(int_str(exp), LAMBDA e :
    IF ~IsOk(e) THEN e
    ELSE Let(__pow__(rational(PyInt(10), PyInt(1)).val,
                     rational(e.val, PyInt(1)).val), LAMBDA pw :
      IF ~IsOk(pw) THEN pw ELSE __mul__(mant.val, pw.val)))

\* the branch "." of _parse_number
ParseDecimal(i, f) ==
  Let(int_str(i), LAMBDA ip :
    IF ~IsOk(ip) THEN ip
    ELSE Let(int_str(f), LAMBDA fi :
      IF ~IsOk(fi) THEN fi
      ELSE Let(rational(fi.val, PyInt(10 ^ Len(f))), LAMBDA fr :
        IF ~IsOk(fr) THEN fr ELSE __radd__(fr.val, ip.val))))

\* the last line of _parse_number
ParseInt(num) ==
  Let(int_str(num), LAMBDA k :
    IF IsOk(k) THEN rational(k.val, PyInt(1)) ELSE k)

RECURSIVE _parse_number(_)
_parse_number(num) ==
  IF Contains(num, "/")
  THEN Let(_parse_number(Split(num, "/").l), LAMBDA n :
         ParseFraction(n, IF IsOk(n) THEN _parse_number(Split(num, "/").r) ELSE n))
  ELSE IF Contains(num, "e")
  THEN Let(_parse_number(Split(num, "e").l), LAMBDA mant :
         ParseExponent(mant, Split(num, "e").r))
  ELSE IF Contains(num, ".")
  THEN ParseDecimal(Split(num, ".").l, Split(num, ".").r)
  ELSE ParseInt(num)

MaxLitLen == 4

\* the characters literals are made of
LitChars == {"0", "1", "3", "4", "5", "7", "-", ".", "e", "/"}

Literals == UNION {[1..m -> LitChars] : m \in 0..MaxLitLen}

ParseInit ==
  /\ \E num \in Literals : ps = [pc |-> "start", num |-> num]
  /\ rat = RatIdle /\ tr = TrimIdle /\ co = CoderIdle
  /\ fm = MathIdle /\ hm = HmmIdle
  /\ ap = ApproxIdle /\ sv = ServiceIdle

\* the client calls _parse_number(num) (rational(num) of a str does)
ParseNumber ==
  /\ ps.pc = "start"
  /\ ps' = [pc |-> "done", num |-> ps.num, ret |-> _parse_number(ps.num)]
  /\ UNCHANGED <<rat, tr, co, fm, hm, ap, sv>>

ParseNext == ParseNumber

SpecParse == ParseInit /\ [][ParseNext]_vars

\* s is one decimal digit or more
IsDigits(s) == Len(s) >= 1 /\ \A i \in 1..Len(s) : IsDigit(s[i])

\* ret is a _Rational of value num / den
Equals(ret, num, den) ==
  /\ IsOk(ret) /\ IsRational(ret.val)
  /\ REq(ret.val, [n |-> PyInt(num), d |-> PyInt(den)])

\* the value digits "." digits denotes, over 10^(number of fractional digits)
DecimalNum(i, f) == NatOf(i, Len(i)) * 10 ^ Len(f) + NatOf(f, Len(f))

\* C13: parse("3/4") equals Rational(3, 4), parse("0.75") Rational(3, 4) and
\* parse("3e-1") Rational(3, 10); in general a literal with "/" yields left
\* divided by right, else one with "e" yields mantissa * 10^exponent, else one
\* with "." yields integer part + fractional digits / 10^(their number).
C13_LiteralParsingByForm ==
  ps.pc = "done" =>
    LET num == ps.num
    IN  /\ num = <<"3", "/", "4">> => Equals(ps.ret, 3, 4)
        /\ num = <<"0", ".", "7", "5">> => Equals(ps.ret, 3, 4)
        /\ num = <<"3", "e", "-", "1">> => Equals(ps.ret, 3, 10)
        /\ Contains(num, "/") =>
             LET l == Split(num, "/").l
                 r == Split(num, "/").r
             IN  (IsDigits(l) /\ IsDigits(r) /\ NatOf(r, Len(r)) # 0)
                   => Equals(ps.ret, NatOf(l, Len(l)), NatOf(r, Len(r)))
        /\ (~Contains(num, "/") /\ Contains(num, "e")) =>
             LET m == Split(num, "e").l
                 e == Split(num, "e").r
             IN  /\ (IsDigits(m) /\ IsDigits(e) /\ Len(e) = 1)
                      => Equals(ps.ret, NatOf(m, Len(m)) * 10 ^ NatOf(e, 1), 1)
                 /\ (IsDigits(m) /\ Len(e) = 2 /\ e[1] = "-" /\ IsDigit(e[2]))
                      => Equals(ps.ret, NatOf(m, Len(m)), 10 ^ DigitVal(e[2]))
        /\ (~Contains(num, "/") /\ ~Contains(num, "e") /\ Contains(num, ".")) =>
             LET i == Split(num, ".").l
                 f == Split(num, ".").r
             IN  (IsDigits(i) /\ IsDigits(f))
                   => Equals(ps.ret, DecimalNum(i, f), 10 ^ Len(f))

\* C14: for every literal ["-"] digits "." digits, parse returns the Rational
\* of the literal's value; for an unsigned one s of non-zero value,
\* parse("-" + s) is the negation of parse(s).
C14_SignedDecimalLiterals ==
  (ps.pc = "done" /\ Contains(ps.num, ".")) =>
    LET neg == ps.num[1] = "-"
        i == IF neg THEN Tail(Split(ps.num, ".").l) ELSE Split(ps.num, ".").l
        f == Split(ps.num, ".").r
    IN  (IsDigits(i) /\ IsDigits(f)) =>
          /\ Equals(ps.ret, IF neg THEN 0 - DecimalNum(i, f) ELSE DecimalNum(i, f),
                    10 ^ Len(f))
          /\ (~neg /\ DecimalNum(i, f) # 0) =>
               Equals(_parse_number(<<"-">> \o ps.num), 0 - DecimalNum(i, f),
                      10 ^ Len(f))

\* the shift amount of the expression the client evaluated: an int, or the
\* numerator of an integer valued _Rational
ShiftAmount == IF rat.op \in {"lshift_int", "rshift_int"} THEN rat.k ELSE rat.b.val.n

\* the expression shifted by an integer valued amount
ShiftByInteger ==
  /\ rat.pc = "done"
  /\ \/ rat.op \in {"lshift_int", "rshift_int"}
     \/ rat.op \in {"lshift", "rshift"} /\ rat.b.val.d.mag = <<1>>

\* C15: a shift of a Rational succeeds exactly when the shift amount is
\* integer valued: a << k returns a * 2^k and a >> k returns a / 2^k, in
\* lowest terms, for a Rational k of denominator 1 and for an int k (as in
\* the encoder's "delta << 1"); a shift by a Rational of another denominator
\* raises.
C15_ShiftByInteger ==
  /\ (ShiftByInteger /\ ~ShiftAmount.neg) =>
       LET pw == PyNum("int", FALSE, BPow2(BVal(ShiftAmount.mag)))
           a == rat.a.val
       IN  /\ IsOk(rat.res) /\ IsRational(rat.res.val)
           /\ Reduced(rat.res.val)
           /\ IF rat.op \in {"lshift", "lshift_int"}
              THEN REq(rat.res.val, [n |-> PyMul(int(a.n), pw), d |-> a.d])
              ELSE REq(rat.res.val, [n |-> a.n, d |-> PyMul(int(a.d), pw)])
  /\ (rat.pc = "done" /\ rat.op \in {"lshift", "rshift"}
        /\ rat.b.val.d.mag # <<1>>) => ~IsOk(rat.res)

(***************************************************************************)
(* The vector functions of febrl_math.py and distance.py.  A vector is a   *)
(* sequence of Python ints.  A float that holds an integer is Float(k); a  *)
(* float that a square root or a quotient produced is a record of the      *)
(* exact numbers it was computed from.                                     *)
(***************************************************************************)
Float(k) == [ty |-> "float", val |-> k]

\* abs(x)
Abs0(x) == IF x < 0 THEN 0 - x ELSE x

\* raise ValueError(f"Vectors of different lengths are not supported. ...")
DifferentLengths(vec1, vec2) == Len(vec1) # Len(vec2)

RECURSIVE L1Loop(_, _, _)
\* l1_distance after the passes i..1 of "for i in range(vec_len)"
L1Loop(vec1, vec2, i) ==
  IF i = 0 THEN 0 ELSE L1Loop(vec1, vec2, i - 1) + Abs0(vec1[i] - vec2[i])

RECURSIVE L2Loop(_, _, _)
\* L2_distance after the passes i..1
L2Loop(vec1, vec2, i) ==
  IF i = 0 THEN 0
  ELSE L2Loop(vec1, vec2, i - 1) + (vec1[i] - vec2[i]) * (vec1[i] - vec2[i])

RECURSIVE LinfLoop(_, _, _)
\* Linf_distance after the passes i..1: max(x, Linf_distance)
LinfLoop(vec1, vec2, i) ==
  IF i = 0 THEN 0
  ELSE LET x == Abs0(vec1[i] - vec2[i])
           Linf_distance == LinfLoop(vec1, vec2, i - 1)
       IN  IF Linf_distance > x THEN Linf_distance ELSE x

\* math.sqrt(k): exact for a perfect square
Sqrt(k) ==
  IF \E r \in 0..k : r * r = k THEN Float(CHOOSE r \in 0..k : r * r = k)
  ELSE [ty |-> "float", sqrt |-> k]

dist_l1(vec1, vec2) ==
  IF DifferentLengths(vec1, vec2) THEN Raise("ValueError")
  ELSE Ok(Float(L1Loop(vec1, vec2, Len(vec1))))

dist_l2(vec1, vec2) ==
  IF DifferentLengths(vec1, vec2) THEN Raise("ValueError")
  ELSE Ok(Sqrt(L2Loop(vec1, vec2, Len(vec1))))

dist_L_inf(vec1, vec2) ==
  IF DifferentLengths(vec1, vec2) THEN Raise("ValueError")
  ELSE Ok(Float(LinfLoop(vec1, vec2, Len(vec1))))

RECURSIVE CanberraLoop(_, _, _)
\* the quotients num / denom added to canberra_distance, in order
CanberraLoop(vec1, vec2, i) ==
  IF i = 0 THEN <<>>
  ELSE LET num == Abs0(vec1[i] - vec2[i])
           denom == Abs0(vec1[i]) + Abs0(vec2[i])
       IN  IF denom # 0
           THEN Append(CanberraLoop(vec1, vec2, i - 1), [num |-> num, denom |-> denom])
           ELSE CanberraLoop(vec1, vec2, i - 1)

dist_canberra(vec1, vec2) ==
  IF DifferentLengths(vec1, vec2) THEN Raise("ValueError")
  ELSE Ok([ty |-> "float", sum |-> CanberraLoop(vec1, vec2, Len(vec1))])

RECURSIVE DotLoop(_, _, _)
\* the sum of vec1[j] * vec2[j] over the passes i..1
DotLoop(vec1, vec2, i) ==
  IF i = 0 THEN 0 ELSE DotLoop(vec1, vec2, i - 1) + vec1[i] * vec2[i]

\* dot_product / (vec1_magnitude * vec2_magnitude), then min(cos_sim, 1.0)
\* and max(cos_sim, -1.0): 0.0 for a zero dot product, else a float of the
\* sign of dot_product
CosSim(dot_product, vec1sqr, vec2sqr) ==
  IF dot_product = 0 THEN Float(0)
  ELSE [ty |-> "float", dot |-> dot_product, sqr1 |-> vec1sqr, sqr2 |-> vec2sqr]

cosine_similarity(vec1, vec2) ==
  IF DifferentLengths(vec1, vec2) THEN Raise("ValueError")
  ELSE LET vec1sqr == DotLoop(vec1, vec1, Len(vec1))
           vec2sqr == DotLoop(vec2, vec2, Len(vec1))
           dot_product == DotLoop(vec1, vec2, Len(vec1))
       IN  IF vec1sqr = 0 \/ vec2sqr = 0 THEN Ok(Float(0))
           ELSE Ok(CosSim(dot_product, vec1sqr, vec2sqr))

\* cos_sim < 0
Negative(cos_sim) ==
  IF "val" \in DOMAIN cos_sim THEN cos_sim.val < 0 ELSE cos_sim.dot < 0

dist_cosine(vec1, vec2) ==
  IF DifferentLengths(vec1, vec2) THEN Raise("ValueError")
  ELSE LET cos_sim == cosine_similarity(vec1, vec2).val
       IN  IF Negative(cos_sim) THEN Raise("ValueError")
           ELSE IF "val" \in DOMAIN cos_sim THEN Ok(Float(1 - cos_sim.val))
           ELSE Ok([ty |-> "float", one_minus |-> cos_sim])

\* distance.py
distL1(vec1, vec2) ==
  IF DifferentLengths(vec1, vec2) THEN Raise("ValueError")
  ELSE Ok(Float(L1Loop(vec1, vec2, Len(vec1))))

distL2(vec1, vec2) ==
  IF DifferentLengths(vec1, vec2) THEN Raise("ValueError")
  ELSE Ok(Sqrt(L2Loop(vec1, vec2, Len(vec1))))

distLInf(vec1, vec2) ==
  IF DifferentLengths(vec1, vec2) THEN Raise("ValueError")
  ELSE Ok(Float(LinfLoop(vec1, vec2, Len(vec1))))

\* mymath.distL1, mymath.distL2, mymath.distLInf: mymath.py defines no
\* function of these names, so the attribute lookup raises
mymath_dist(name, vec1, vec2) == Raise("AttributeError")

MaxVecLen == 2
MaxComp == 1

\* the component the tests build their vectors from
TestComp == 3

Comps == {k * TestComp : k \in (0 - MaxComp)..MaxComp}

Vecs == UNION {[1..m -> Comps] : m \in 0..MaxVecLen}

\* the functions called as module.name
DistFunctions ==
  {<<"febrl_math", "dist_l1">>, <<"febrl_math", "dist_l2">>,
   <<"febrl_math", "dist_L_inf">>, <<"febrl_math", "dist_canberra">>,
   <<"febrl_math", "cosine_similarity">>, <<"febrl_math", "dist_cosine">>,
   <<"distance", "distL1">>, <<"distance", "distL2">>, <<"distance", "distLInf">>,
   <<"mymath", "distL1">>, <<"mymath", "distL2">>, <<"mymath", "distLInf">>}

DistInit ==
  /\ \E vec1 \in Vecs, vec2 \in Vecs : fm = [pc |-> "start", vec1 |-> vec1, vec2 |-> vec2]
  /\ rat = RatIdle /\ tr = TrimIdle /\ co = CoderIdle
  /\ ps = ParseIdle /\ hm = HmmIdle
  /\ ap = ApproxIdle /\ sv = ServiceIdle

\* the call module.name(vec1, vec2) has ended with ret
Called(module, name, ret) ==
  /\ fm.pc = "start"
  /\ fm' = [pc |-> "done", vec1 |-> fm.vec1, vec2 |-> fm.vec2,
            fn |-> <<module, name>>, ret |-> ret]
  /\ UNCHANGED <<rat, tr, co, ps, hm, ap, sv>>

CallDistL1 == Called("febrl_math", "dist_l1", dist_l1(fm.vec1, fm.vec2))
CallDistL2 == Called("febrl_math", "dist_l2", dist_l2(fm.vec1, fm.vec2))
CallDistLInf == Called("febrl_math", "dist_L_inf", dist_L_inf(fm.vec1, fm.vec2))
CallDistCanberra == Called("febrl_math", "dist_canberra", dist_canberra(fm.vec1, fm.vec2))
CallCosineSimilarity ==
  Called("febrl_math", "cosine_similarity", cosine_similarity(fm.vec1, fm.vec2))
CallDistCosine == Called("febrl_math", "dist_cosine", dist_cosine(fm.vec1, fm.vec2))
CallDistanceL1 == Called("distance", "distL1", distL1(fm.vec1, fm.vec2))
CallDistanceL2 == Called("distance", "distL2", distL2(fm.vec1, fm.vec2))
CallDistanceLInf == Called("distance", "distLInf", distLInf(fm.vec1, fm.vec2))
CallMymathDist ==
  \E name \in {"distL1", "distL2", "distLInf"} :
    Called("mymath", name, mymath_dist(name, fm.vec1, fm.vec2))

DistNext ==
  \/ CallDistL1
  \/ CallDistL2
  \/ CallDistLInf
  \/ CallDistCanberra
  \/ CallCosineSimilarity
  \/ CallDistCosine
  \/ CallDistanceL1
  \/ CallDistanceL2
  \/ CallDistanceLInf
  \/ CallMymathDist

SpecDist == DistInit /\ [][DistNext]_vars

RECURSIVE SumAbsDiff(_, _, _)
\* the sum over the positions in S of |vec1[i] - vec2[i]|
SumAbsDiff(vec1, vec2, S) ==
  IF S = {} THEN 0
  ELSE LET i == CHOOSE j \in S : TRUE
       IN  Abs0(vec1[i] - vec2[i]) + SumAbsDiff(vec1, vec2, S \ {i})

\* C16: dist_l1, dist_l2, dist_L_inf, dist_canberra, cosine_similarity and
\* dist_cosine of febrl_math, and distL1, distL2, distLInf of distance and of
\* mymath, raise ValueError when the two vectors differ in length; on equal
\* lengths dist_l1 returns the sum and dist_L_inf the maximum of the absolute
\* component differences.
C16_DifferentLengthsRaise ==
  fm.pc = "done" =>
    LET n == Len(fm.vec1)
        diff(i) == Abs0(fm.vec1[i] - fm.vec2[i])
    IN  /\ (n # Len(fm.vec2) /\ fm.fn \in DistFunctions)
             => fm.ret = Raise("ValueError")
        /\ (n = Len(fm.vec2) /\ fm.fn = <<"febrl_math", "dist_l1">>)
             => fm.ret = Ok(Float(SumAbsDiff(fm.vec1, fm.vec2, 1..n)))
        /\ (n = Len(fm.vec2) /\ fm.fn = <<"febrl_math", "dist_L_inf">>)
             => /\ IsOk(fm.ret)
                /\ \A i \in 1..n : diff(i) <= fm.ret.val.val
                /\ n = 0 => fm.ret.val.val = 0
                /\ n > 0 => \E i \in 1..n : diff(i) = fm.ret.val.val

\* C17: dist_cosine raises ValueError for every pair of vectors of equal
\* length with a negative component somewhere ([-3, -3] with [3, 3], and
\* [0, -3] with [3, 0]); otherwise it returns 1 - cosine similarity, which is
\* 1 when a vector is all zeros.
C17_CosineNonNegativeOnly ==
  (fm.pc = "done" /\ fm.fn = <<"febrl_math", "dist_cosine">>
     /\ Len(fm.vec1) = Len(fm.vec2)) =>
    LET n == Len(fm.vec1)
        cos_sim == cosine_similarity(fm.vec1, fm.vec2).val
    IN  IF \E i \in 1..n : fm.vec1[i] < 0 \/ fm.vec2[i] < 0
        THEN fm.ret = Raise("ValueError")
        ELSE /\ IsOk(fm.ret)
             /\ fm.ret.val = IF "val" \in DOMAIN cos_sim THEN Float(1 - cos_sim.val)
                             ELSE [ty |-> "float", one_minus |-> cos_sim]
             /\ ((\A i \in 1..n : fm.vec1[i] = 0) \/ (\A i \in 1..n : fm.vec2[i] = 0))
                  => fm.ret.val = Float(1)

(***************************************************************************)
(* standard_deviation and mean.  A list element is a Python int, the str   *)
(* "foo" or None.                                                          *)
(***************************************************************************)
IntElem(k) == [ty |-> "int", val |-> k]
StrElem(t) == [ty |-> "str", val |-> t]
NoneElem == [ty |-> "NoneType"]

IsNumber(x) == x.ty = "int"

RECURSIVE SumLoop(_, _)
\* sum(list_of_numbers) and math.fsum(list_of_numbers) over the items i..1,
\* all of them numbers
SumLoop(list_of_numbers, i) ==
  IF i = 0 THEN 0 ELSE SumLoop(list_of_numbers, i - 1) + list_of_numbers[i].val

RECURSIVE SsLoop(_, _, _)
\* the sum of (x - average)**2 over the items i..1, times len**2: with
\* average = sum_total / len, (x - average) * len = x * len - sum_total
SsLoop(list_of_numbers, sum_total, i) ==
  IF i = 0 THEN 0
  ELSE LET x == list_of_numbers[i].val * Len(list_of_numbers) - sum_total
       IN  SsLoop(list_of_numbers, sum_total, i - 1) + x * x

\* num / den as a float: exact when den divides num
Quotient(num, den) ==
  IF num % den = 0
  THEN Float(IF num < 0 THEN 0 - ((0 - num) \div den) ELSE num \div den)
  ELSE [ty |-> "float", num |-> num, den |-> den]

standard_deviation(list_of_numbers) ==
  IF Len(list_of_numbers) = 1 THEN Ok(Float(0))
  ELSE IF Len(list_of_numbers) = 0 THEN Raise("ValueError")
  ELSE IF \E i \in 1..Len(list_of_numbers) : ~IsNumber(list_of_numbers[i])
  THEN Raise("TypeError")
  ELSE LET len == Len(list_of_numbers)
           sum_total == SumLoop(list_of_numbers, len)
           ss == SsLoop(list_of_numbers, sum_total, len)
       IN  IF ss = 0 THEN Ok(Float(0))
           ELSE Ok([ty |-> "float", sqrt |-> [num |-> ss, den |-> len * len * len]])

\* float(x) of a list element
float(x) ==
  IF x.ty = "int" THEN Ok(Float(x.val))
  ELSE IF x.ty = "str" THEN Raise("ValueError")
  ELSE Raise("TypeError")

mean(list_of_numbers) ==
  IF Len(list_of_numbers) = 1 THEN float(list_of_numbers[1])
  ELSE IF Len(list_of_numbers) = 0 THEN Raise("ValueError")
  ELSE IF \E i \in 1..Len(list_of_numbers) : ~IsNumber(list_of_numbers[i])
  THEN Raise("TypeError")
  ELSE Ok(Quotient(SumLoop(list_of_numbers, Len(list_of_numbers)),
                   Len(list_of_numbers)))

MaxListLen == 3
MaxElem == 1

Elems == {IntElem(k) : k \in (0 - MaxElem)..MaxElem} \cup {StrElem("foo"), NoneElem}

Lists == UNION {[1..m -> Elems] : m \in 0..MaxListLen}

StatsInit ==
  /\ \E list_of_numbers \in Lists :
       fm = [pc |-> "start", list_of_numbers |-> list_of_numbers]
  /\ rat = RatIdle /\ tr = TrimIdle /\ co = CoderIdle
  /\ ps = ParseIdle /\ hm = HmmIdle
  /\ ap = ApproxIdle /\ sv = ServiceIdle

\* the call name(list_of_numbers) has ended with ret
StatsCalled(name, ret) ==
  /\ fm.pc = "start"
  /\ fm' = [pc |-> "done", list_of_numbers |-> fm.list_of_numbers,
            fn |-> name, ret |-> ret]
  /\ UNCHANGED <<rat, tr, co, ps, hm, ap, sv>>

CallStandardDeviation ==
  StatsCalled("standard_deviation", standard_deviation(fm.list_of_numbers))

CallMean == StatsCalled("mean", mean(fm.list_of_numbers))

StatsNext ==
  \/ CallStandardDeviation
  \/ CallMean

SpecStats == StatsInit /\ [][StatsNext]_vars

\* C18: standard_deviation and mean raise ValueError for the empty list and
\* TypeError for every list of one element or more that holds a non-numeric
\* element; for a list of one number standard_deviation returns 0 and mean
\* the number.
C18_StatsErrors ==
  fm.pc = "done" =>
    LET l == fm.list_of_numbers
    IN  /\ Len(l) = 0 => fm.ret = Raise("ValueError")
        /\ (\E i \in 1..Len(l) : ~IsNumber(l[i])) => fm.ret = Raise("TypeError")
        /\ (Len(l) = 1 /\ IsNumber(l[1])) =>
             fm.ret = Ok(Float(IF fm.fn = "mean" THEN l[1].val ELSE 0))

(***************************************************************************)
(* trainhmm.py: the loop that reads the training file.  A str is the       *)
(* sequence of its characters; the file is the sequence of its lines, each *)
(* ending with "\n".                                                       *)
(***************************************************************************)
UpperChars == {"A", "G", "M", "N", "O", "P", "S", "T", "U"}
LowerChars == {"a", "b", "c", "g", "m", "x"}
Blanks == {" ", "\n"}

RECURSIVE lstrip(_)
lstrip(t) == IF t # <<>> /\ Head(t) \in Blanks THEN lstrip(Tail(t)) ELSE t

RECURSIVE rstrip(_)
rstrip(t) ==
  IF t # <<>> /\ t[Len(t)] \in Blanks THEN rstrip(SubSeq(t, 1, Len(t) - 1)) ELSE t

\* t.strip()
strip(t) == rstrip(lstrip(t))

\* t.startswith(prefix)
startswith(t, prefix) ==
  Len(t) >= Len(prefix) /\ SubSeq(t, 1, Len(prefix)) = prefix

\* t.isupper(): some cased character and no lowercase one
isupper(t) ==
  /\ \E i \in 1..Len(t) : t[i] \in UpperChars
  /\ \A i \in 1..Len(t) : t[i] \notin LowerChars

RECURSIVE split(_, _)
\* t.split(sep) for a separator of one character
split(t, sep) ==
  IF Contains(t, sep)
  THEN <<Split(t, sep).l>> \o split(Split(t, sep).r, sep)
  ELSE <<t>>

\* a test for "#STOP" that never holds
NeverStop(line) == FALSE

\* line.startswith("#STOP")
IsStop(line) == startswith(line, <<"#", "S", "T", "O", "P">>)

\* not ((line != "") and (line[0] != "#")): empty, or a comment
IsSkipped(line) == IF line = <<>> THEN TRUE ELSE line[1] = "#"

\* line[: line.find("#")].strip() when "#" in line
RemoveComment(line) ==
  IF Contains(line, "#") THEN strip(Split(line, "#").l) ELSE line

\* one pass of "for tag_state_pair in line.split(",")" on the state st
PairStep(st, tag_state_pair) ==
  LET parts == split(tag_state_pair, ":")
      tag == strip(parts[1])
      state == strip(parts[2])
  IN  IF st.out # "ok" THEN st
      ELSE IF Len(parts) # 2 THEN [st EXCEPT !.out = "ValueError"]
      ELSE IF Len(tag) # 2 \/ ~isupper(tag) THEN [st EXCEPT !.out = "exit"]
      ELSE IF state = <<>> \/ isupper(state)
      THEN [st EXCEPT !.out = "exit", !.tag_set = st.tag_set \cup {tag}]
      ELSE [st EXCEPT !.tag_set = st.tag_set \cup {tag},
                      !.state_set = st.state_set \cup {state},
                      !.train_rec = Append(st.train_rec, <<state, tag>>)]

RECURSIVE PairLoop(_, _, _)
PairLoop(st, pairs, i) ==
  IF i > Len(pairs) THEN st ELSE PairLoop(PairStep(st, pairs[i]), pairs, i + 1)

\* an empty line
BlankLine == <<"\n">>
\* a comment line
CommentLine == <<"#", " ", "c", "\n">>
\* the line #STOP
StopLine == <<"#", "S", "T", "O", "P", "\n">>
\* a line that starts with #STOP after blanks
IndentedStopLine == <<" ", "#", "S", "T", "O", "P", " ", "x", "\n">>
\* a record of one pair
OnePairLine == <<"G", "M", ":", "a", "\n">>
\* a record of two pairs
TwoPairLine == <<"U", "N", ":", "b", ",", " ", "G", "M", ":", "a", "\n">>
\* a record followed by a comment
TrailingCommentLine == <<"G", "M", ":", "a", " ", "#", " ", "c", "\n">>
\* a pair without a colon
NoColonLine == <<"G", "M", "\n">>
\* a pair with a lowercase tag
IllegalTagLine == <<"g", "m", ":", "a", "\n">>
\* a pair with an uppercase state
IllegalStateLine == <<"G", "M", ":", "A", "\n">>

MaxLines == 3

TrainLines ==
  {BlankLine, CommentLine, StopLine, IndentedStopLine, OnePairLine, TwoPairLine,
   TrailingCommentLine, NoColonLine, IllegalTagLine, IllegalStateLine}

Files == UNION {[1..m -> TrainLines] : m \in 0..MaxLines}

\* train_file.readline(): the line at position pos, "" at the end of the file
readline(file, pos) == IF pos <= Len(file) THEN file[pos] ELSE <<>>

HmmInit ==
  /\ \E file \in Files : hm = [pc |-> "open", file |-> file]
  /\ rat = RatIdle /\ tr = TrimIdle /\ co = CoderIdle
  /\ ps = ParseIdle /\ fm = MathIdle
  /\ ap = ApproxIdle /\ sv = ServiceIdle

\* open the file, empty sets and list, read the first line
OpenFile ==
  /\ hm.pc = "open"
  /\ hm' = [pc |-> "loop", file |-> hm.file, pos |-> 1,
            line |-> readline(hm.file, 1), tag_set |-> {}, state_set |-> {},
            train_rec_list |-> <<>>, line_cnt |-> 0]
  /\ UNCHANGED <<rat, tr, co, ps, fm, ap, sv>>

\* "while line != ''" fails: the loop ends, train_file.close()
EndOfFile ==
  /\ hm.pc = "loop" /\ hm.line = <<>>
  /\ hm' = [hm EXCEPT !.pc = "closed"]
  /\ UNCHANGED <<rat, tr, co, ps, fm, ap, sv>>

\* a pass on a line that starts with "#STOP": break, train_file.close()
StopPass ==
  /\ hm.pc = "loop" /\ hm.line # <<>>
  /\ IsStop(strip(hm.line))
  /\ hm' = [hm EXCEPT !.pc = "closed", !.line = strip(hm.line)]
  /\ UNCHANGED <<rat, tr, co, ps, fm, ap, sv>>

\* a pass on an empty line or a comment: line_cnt += 1, read the next line
SkipPass ==
  /\ hm.pc = "loop" /\ hm.line # <<>>
  /\ ~IsStop(strip(hm.line))
  /\ IsSkipped(strip(hm.line))
  /\ hm' = [hm EXCEPT !.line_cnt = hm.line_cnt + 1, !.pos = hm.pos + 1,
                      !.line = readline(hm.file, hm.pos + 1)]
  /\ UNCHANGED <<rat, tr, co, ps, fm, ap, sv>>

\* a pass on any other line: parse its pairs and append train_rec, or leave
\* the program through sys.exit() or an uncaught ValueError
RecordPass ==
  /\ hm.pc = "loop" /\ hm.line # <<>>
  /\ ~IsStop(strip(hm.line))
  /\ ~IsSkipped(strip(hm.line))
  /\ LET line == RemoveComment(strip(hm.line))
         st == PairLoop([out |-> "ok", tag_set |-> hm.tag_set,
                         state_set |-> hm.state_set, train_rec |-> <<>>],
                        split(line, ","), 1)
     IN  hm' = IF st.out = "ok"
               THEN [hm EXCEPT !.tag_set = st.tag_set, !.state_set = st.state_set,
                               !.train_rec_list = Append(hm.train_rec_list, st.train_rec),
                               !.line_cnt = hm.line_cnt + 1, !.pos = hm.pos + 1,
                               !.line = readline(hm.file, hm.pos + 1)]
               ELSE [hm EXCEPT !.pc = st.out, !.line = line,
                               !.tag_set = st.tag_set, !.state_set = st.state_set]
  /\ UNCHANGED <<rat, tr, co, ps, fm, ap, sv>>

HmmNext ==
  \/ OpenFile
  \/ EndOfFile
  \/ StopPass
  \/ SkipPass
  \/ RecordPass

SpecHmm == HmmInit /\ [][HmmNext]_vars

\* the position of the first character of raw that is no blank (Len + 1 if
\* there is none)
FirstInk(raw) ==
  CHOOSE i \in 1..(Len(raw) + 1) :
    /\ \A j \in 1..(i - 1) : raw[j] \in Blanks
    /\ i <= Len(raw) => raw[i] \notin Blanks

\* the line of the file starts with #STOP
StartsWithStop(raw) ==
  LET i == FirstInk(raw)
  IN  i + 4 <= Len(raw) /\ SubSeq(raw, i, i + 4) = <<"#", "S", "T", "O", "P">>

\* the line of the file is empty or starts with #
EmptyOrComment(raw) ==
  LET i == FirstInk(raw) IN IF i > Len(raw) THEN TRUE ELSE raw[i] = "#"

\* sub occurs in t
Occurs(sub, t) ==
  \E i \in 1..(Len(t) - Len(sub) + 1) : SubSeq(t, i, i + Len(sub) - 1) = sub

\* the number of pairs a record line holds: one more than the commas before
\* its comment
PairsOf(raw) ==
  LET stop == IF Contains(raw, "#")
              THEN CHOOSE i \in 1..Len(raw) :
                     raw[i] = "#" /\ \A j \in 1..(i - 1) : raw[j] # "#"
              ELSE Len(raw) + 1
  IN  1 + Cardinality({i \in 1..(stop - 1) : raw[i] = ","})

\* the (state, tag) pairs of the records recs
PairsIn(recs) ==
  UNION {{recs[i][k] : k \in 1..Len(recs[i])} : i \in 1..Len(recs)}

\* the lines the loop has completed a pass on
PassedLines == 1..(hm.pos - 1)

\* those of them that are neither empty nor comments
RecordLines == {i \in PassedLines : ~EmptyOrComment(hm.file[i])}

ResolvedBy(lo, hi, k) ==
  LET w == Width(lo, hi)
  IN  RLe([n |-> PyInt(2), d |-> PyInt(1)],
          [n |-> PyMul(w.n, PyInt(2 ^ k)), d |-> w.d])

\* C20: when every lookup succeeds, encode returns the least non-negative
\* integer k such that ((maxval - minval) / 2) * 2^k >= 1, (minval, maxval)
\* being the interval after the passes over text and the terminator; for a
\* table produced by train, k >= 1.
C20_LeastBitCount ==
  [][co.pc = "halve" =>
       /\ co'.pc = "done"
       /\ IsOk(co'.ret)
       /\ co'.ret.val \in Nat
       /\ ResolvedBy(co.minval, co.maxval, co'.ret.val)
       /\ \A j \in 0..(co'.ret.val - 1) : ~ResolvedBy(co.minval, co.maxval, j)
       /\ co.complete => co'.ret.val >= 1]_vars

(***************************************************************************)
(* _approximate(n, d, err) on Python ints, one action per block.           *)
(***************************************************************************)
\* self < other: class _Rational defines __cmp__, which "<" does not use, and
\* no __lt__, so the comparison raises TypeError whatever other is
__lt__(self, other) == Raise("TypeError")

\* the error tolerances passed: -1, 0, 1 and rational(1, 2)
Errs ==
  {PyInt(-1), PyInt(0), PyInt(1), rational(PyInt(1), PyInt(2)).val}

ApproxInit ==
  /\ \E n \in 0..MaxTrimN, d \in 1..MaxTrimD, err \in Errs :
       ap = [pc |-> "enter", n0 |-> n, d0 |-> d, err |-> err]
  /\ rat = RatIdle /\ tr = TrimIdle /\ co = CoderIdle
  /\ ps = ParseIdle /\ fm = MathIdle /\ hm = HmmIdle
  /\ sv = ServiceIdle

\* the state of a call that has ended with outcome res
ApproxDone(res) ==
  [pc |-> "done", n0 |-> ap.n0, d0 |-> ap.d0, err |-> ap.err, res |-> res]

\* "r = _Rational(n, d)" and the assignments before the loop
ApproxEnter ==
  /\ ap.pc = "enter"
  /\ ap' = Let(_Rational(PyInt(ap.n0), PyInt(ap.d0)), LAMBDA r :
             IF ~IsOk(r) THEN ApproxDone(r)
             ELSE [pc |-> "loop", n0 |-> ap.n0, d0 |-> ap.d0, err |-> ap.err,
                   r |-> r.val, n |-> ap.n0, d |-> ap.d0,
                   last_n |-> 0, last_d |-> 1, current_n |-> 1, current_d |-> 0])
  /\ UNCHANGED <<rat, tr, co, ps, fm, hm, sv>>

\* abs(app - r) < err
WithinErr(app, r, err) ==
  Let(__sub__(app, r), LAMBDA diff :
    IF ~IsOk(diff) THEN diff
    ELSE Let(__abs__(diff.val), LAMBDA a :
           IF ~IsOk(a) THEN a ELSE __lt__(a.val, err)))

\* one pass of the body of "while 1"; after a break, "return app"
ApproxIter ==
  /\ ap.pc = "loop"
  /\ LET div == ap.n \div ap.d
         mod == ap.n % ap.d
         next_n == ap.last_n + ap.current_n * div
         next_d == ap.last_d + ap.current_d * div
     IN  ap' = Let(_Rational(PyInt(next_n), PyInt(next_d)), LAMBDA app :
               IF ~IsOk(app) THEN ApproxDone(app)
               ELSE IF mod = 0 THEN ApproxDone(app)
               ELSE Let(WithinErr(app.val, ap.r, ap.err), LAMBDA within :
                 IF ~IsOk(within) THEN ApproxDone(within)
                 ELSE IF within.val THEN ApproxDone(app)
                 ELSE [ap EXCEPT !.n = ap.d, !.d = mod,
                                 !.last_n = ap.current_n, !.last_d = ap.current_d,
                                 !.current_n = next_n, !.current_d = next_d]))
  /\ UNCHANGED <<rat, tr, co, ps, fm, hm, sv>>

ApproxNext ==
  \/ ApproxEnter
  \/ ApproxIter

(***************************************************************************)
(* A client of the methods trim and approximate: it calls the method on r  *)
(* and then on -r.  The fields of a _Rational are integer valued floats,   *)
(* on which _trim and _approximate compute what they compute on the ints   *)
(* of the same value.                                                      *)
(***************************************************************************)
ServiceInit ==
  /\ \E n \in (0 - MaxTrimN)..MaxTrimN, d \in 1..MaxTrimD :
       \E call \in [fn : {"trim"}, arg : 1..MaxTrimMaxD]
                     \cup [fn : {"approximate"}, arg : Errs] :
         sv = [pc |-> "start", fn |-> call.fn, arg |-> call.arg,
               r |-> rational(PyInt(n), PyInt(d)).val,
               self |-> rational(PyInt(n), PyInt(d)).val, rets |-> <<>>]
  /\ rat = RatIdle /\ tr = TrimIdle /\ co = CoderIdle
  /\ ps = ParseIdle /\ fm = MathIdle /\ hm = HmmIdle
  /\ ap = ApproxIdle

\* "n, d = self.n, self.d; if n < 0: n *= -1" and the call of _trim or of
\* _approximate
ServiceCall ==
  /\ sv.pc = "start"
  /\ LET n == BVal(sv.self.n.mag)
         d == BVal(sv.self.d.mag)
     IN  IF sv.fn = "trim"
         THEN /\ tr' = [pc |-> "enter", n0 |-> n, d0 |-> d, max_d |-> sv.arg]
              /\ ap' = ap
         ELSE /\ ap' = [pc |-> "enter", n0 |-> n, d0 |-> d, err |-> sv.arg]
              /\ tr' = tr
  /\ sv' = [sv EXCEPT !.pc = "called"]
  /\ UNCHANGED <<rat, co, ps, fm, hm>>

\* the method has ended with ret: the client goes on to -r, or is done
ServiceNoted(ret) ==
  IF sv.rets = <<>>
  THEN Let(__neg__(sv.r), LAMBDA m :
         [sv EXCEPT !.pc = IF IsOk(m) THEN "start" ELSE "done",
                    !.self = IF IsOk(m) THEN m.val ELSE sv.r,
                    !.rets = <<ret>>])
  ELSE [sv EXCEPT !.pc = "done", !.rets = Append(sv.rets, ret)]

\* trim from the return of _trim on: "if self.n < 0: n *= -1",
\* "r = _Rational(n, d)", "upwards = self < r"; the lines after the
\* comparison are not reached
ServiceTrimReturn ==
  /\ sv.pc = "called" /\ sv.fn = "trim" /\ tr.pc = "done"
  /\ sv' = ServiceNoted(
       IF ~IsOk(tr.res) THEN tr.res
       ELSE Let(IF sv.self.n.neg THEN PyNeg(tr.res.val.n) ELSE tr.res.val.n, LAMBDA n :
            Let(_Rational(n, tr.res.val.d), LAMBDA r :
              IF ~IsOk(r) THEN r
              ELSE Let(__lt__(sv.self, r.val), LAMBDA upwards :
                     IF IsOk(upwards) THEN r ELSE upwards))))
  /\ UNCHANGED <<rat, tr, co, ps, fm, hm, ap>>

\* approximate from the return of _approximate on: "if self.n < 0: app *= -1"
\* (the class has no __imul__: app = app.__mul__(-1)), "return app"
ServiceApproxReturn ==
  /\ sv.pc = "called" /\ sv.fn = "approximate" /\ ap.pc = "done"
  /\ sv' = ServiceNoted(
       IF ~IsOk(ap.res) THEN ap.res
       ELSE IF sv.self.n.neg THEN __mul__(ap.res.val, PyInt(-1))
       ELSE ap.res)
  /\ UNCHANGED <<rat, tr, co, ps, fm, hm, ap>>

ServiceNext ==
  \/ ServiceCall
  \/ TrimEnter
  \/ TrimIter
  \/ TrimTail
  \/ ApproxEnter
  \/ ApproxIter
  \/ ServiceTrimReturn
  \/ ServiceApproxReturn

SpecService == ServiceInit /\ [][ServiceNext]_vars

\* the number or _Rational err is > 0
IsPositive(err) ==
  IF IsRational(err) THEN ~err.n.neg /\ ~IsZero(err.n)
  ELSE ~err.neg /\ ~IsZero(err)

\* C21: for every Rational r, (-r).trim(max_d) equals -(r.trim(max_d)) for
\* every max_d >= 1, and (-r).approximate(err) returns normally and equals
\* -(r.approximate(err)) for every err > 0: the sign is stripped before the
\* recurrence and reapplied after.
C21_SignSymmetry ==
  (sv.pc = "done" /\ (sv.fn = "approximate" => IsPositive(sv.arg))) =>
    /\ Len(sv.rets) = 2
    /\ IsOk(sv.rets[1]) /\ IsOk(sv.rets[2])
    /\ sv.rets[2].val = __neg__(sv.rets[1].val).val

(***************************************************************************)
(* The convergent loops of _trim and _approximate, called on ints.         *)
(***************************************************************************)
LoopsInit == TrimInit \/ ApproxInit

LoopsNext ==
  \/ TrimEnter
  \/ TrimIter
  \/ TrimTail
  \/ ApproxEnter
  \/ ApproxIter

SpecLoops == LoopsInit /\ [][LoopsNext]_vars

\* the number err as a fraction
AsFraction(err) ==
  IF IsRational(err) THEN err ELSE [n |-> err, d |-> PyInt(1)]

\* |x - y| as an exact fraction
Distance(x, y) ==
  Let(Cross(x, y), LAMBDA c : Let(PyMul(int(x.d), int(y.d)), LAMBDA d :
    [n |-> PyAbs(c), d |-> d]))

\* the call of _approximate in state a has returned a convergent that
\* equals n / d or differs from it by less than err
ApproxReturned(a) ==
  /\ a.pc = "done"
  /\ IsOk(a.res)
  /\ Let([n |-> PyInt(a.n0), d |-> PyInt(a.d0)], LAMBDA r :
       \/ REq(a.res.val, r)
       \/ Let(Distance(a.res.val, r), LAMBDA dist :
          Let(AsFraction(a.err), LAMBDA err : RLt(dist, err))))

\* C22: for n >= 0 and d >= 1 the "while 1" loop of _trim (max_d >= 2) and
\* of _approximate (any err, err <= 0 included) exits after finitely many
\* passes, because the Euclidean remainder d strictly decreases as long as
\* the loop goes on, and _approximate then returns a convergent that equals
\* n / d or differs from it by less than err.
C22_ConvergentLoopsExit ==
  [][/\ tr.pc = "loop" =>
          \/ tr'.pc = "tail"
          \/ tr'.pc = "loop" /\ 1 <= tr'.d /\ tr'.d < tr.d
     /\ ap.pc = "loop" =>
          \/ ap'.pc = "loop" /\ 1 <= ap'.d /\ ap'.d < ap.d
          \/ ApproxReturned(ap')]_vars

====
